---- MODULE Spec2Model ----
(***************************************************************************)
(* Model of src/src/main.cpp: the Wio Terminal RSA demo.  setup() is one   *)
(* linear routine: SD init, load two DER key files, seed the DRBG, query   *)
(* the two file sizes, parse the keys, encrypt the fixed message, print    *)
(* the ciphertext, decrypt, null-terminate, print.  Every checked failure  *)
(* prints and spins in while(1).                                           *)
(*                                                                         *)
(* The SD card, the file system and mbedtls are the environment.  Their    *)
(* results are drawn nondeterministically from what their interfaces      *)
(* allow:                                                                  *)
(*   - SD.begin and every SD.open may fail;                                *)
(*   - File::size() of a File whose open failed reads through a null       *)
(*     handle: any value;                                                  *)
(*   - a key file is a size, the length of the DER structure it starts     *)
(*     with (0: none) and the key that structure encodes;                  *)
(*   - RSA is symbolic: a ciphertext names the key and the plaintext it    *)
(*     was made from.  PKCS#1 v1.5 decryption (the padding mbedtls_pk      *)
(*     sets up) with a private key that is not the ciphertext's either     *)
(*     fails the padding check or, rarely, passes it and yields garbage    *)
(*     of any length the output capacity admits.                           *)
(***************************************************************************)
EXTENDS Integers, Sequences, FiniteSets, TLC

\* ------------------------------------------------------------ constants

RSA_KEY_SIZE == 2048
MAX_MESSAGE_LENGTH == 100
MAX_ENCRYPTED_LENGTH == 256
\* sizeof(public_key_buf), sizeof(private_key_buf)
KEY_BUF_SIZE == 2048

PRIVATE_KEY_FILE == "/private.der"
PUBLIC_KEY_FILE == "/public.der"

message == "Hello, Wio Terminal with RSA encryption!"

strlen(s) == Len(s)

\* mbedtls return codes the calls of setup() can see (0 is success).
ERR_ENTROPY_SOURCE_FAILED == -52
ERR_PK_KEY_INVALID_FORMAT == -15616
ERR_RSA_BAD_INPUT_DATA == -16512
ERR_RSA_INVALID_PADDING == -16640
ERR_RSA_OUTPUT_TOO_LARGE == -17408

\* --------------------------------------------------------------- bounds

\* Distinct RSA key pairs that may be on the card.
NumKeys == 2
\* Distinct random paddings mbedtls_ctr_drbg_random may produce.
NumPads == 2
\* Size of a key file that fits the buffer with room to spare.
SmallFile == 294
\* Bytes by which an oversized key file exceeds the key buffer.
Excess == 1

\* Modulus sizes of the keys on the card.
KeyBits == {RSA_KEY_SIZE \div 2, RSA_KEY_SIZE, 2 * RSA_KEY_SIZE}

Keys == [id : 1..NumKeys, bits : KeyBits]

NoKey == [id |-> 0, bits |-> 0]

FileSizes == {0, SmallFile, KEY_BUF_SIZE, KEY_BUF_SIZE + Excess}

\* A key file: its size, the length der of the DER structure at its start
\* (0: malformed) and the key that structure encodes.
KeyFiles ==
    {f \in [size : FileSizes, der : FileSizes, key : Keys \cup {NoKey}] :
        /\ f.der <= f.size
        /\ (f.der = 0) <=> (f.key = NoKey)}

\* No file of that name on the card.
NoFile == [size |-> -1, der |-> 0, key |-> NoKey]

\* ------------------------------------------------------ library models

Min(a, b) == IF a < b THEN a ELSE b

\* char buf[2048] = {0}: no file bytes held.
ZeroBuf == [n |-> 0, der |-> 0, key |-> NoKey]

\* unsigned char encrypted[MAX_ENCRYPTED_LENGTH] = {0}
NoCipher == [key |-> NoKey, msg |-> "", pad |-> 0]

\* unsigned char decrypted[MAX_MESSAGE_LENGTH] = {0}
NoPlain == [text |-> "", len |-> 0]

\* file.readBytes(buffer, buffer_size): at most buffer_size bytes of the file.
readBytes(file, buffer_size) == Min(file.size, buffer_size)

\* The buffer after readBytes stored the first n bytes of file in it.
Filled(file, n) == [n |-> n, der |-> file.der, key |-> file.key]

\* The buffer holds a complete DER key structure.
HoldsKey(buf) == buf.der > 0 /\ buf.der <= buf.n

\* The parsers' results on (buf, keylen): the key when the structure is
\* complete and keylen covers it exactly; a longer keylen covers trailing
\* bytes (and, past the buffer, neighbouring memory), which the parser may
\* accept or reject; a shorter one cuts the structure.
pk_parse(buf, keylen) ==
    IF HoldsKey(buf) /\ keylen = buf.der
    THEN {[ret |-> 0, key |-> buf.key]}
    ELSE IF HoldsKey(buf) /\ keylen > buf.der
    THEN {[ret |-> 0, key |-> buf.key],
          [ret |-> ERR_PK_KEY_INVALID_FORMAT, key |-> NoKey]}
    ELSE {[ret |-> ERR_PK_KEY_INVALID_FORMAT, key |-> NoKey]}

mbedtls_pk_parse_public_key(buf, keylen) == pk_parse(buf, keylen)

mbedtls_pk_parse_key(buf, keylen) == pk_parse(buf, keylen)

\* mbedtls_rsa_get_len: the modulus size in bytes.
rsa_len(key) == key.bits \div 8

\* mbedtls_pk_encrypt(ctx, input, ilen, output, olen, osize, f_rng, p_rng):
\* olen is set to the modulus size before the capacity is checked; the
\* PKCS#1 v1.5 padding needs 11 bytes and draws its bytes from the DRBG.
mbedtls_pk_encrypt(key, input, osize) ==
    IF rsa_len(key) > osize
    THEN {[ret |-> ERR_RSA_OUTPUT_TOO_LARGE, olen |-> rsa_len(key), out |-> NoCipher]}
    ELSE IF strlen(input) + 11 > rsa_len(key)
    THEN {[ret |-> ERR_RSA_BAD_INPUT_DATA, olen |-> rsa_len(key), out |-> NoCipher]}
    ELSE {[ret |-> 0, olen |-> rsa_len(key),
           out |-> [key |-> key, msg |-> input, pad |-> p]] : p \in 1..NumPads}

\* Lengths a padding-valid garbage plaintext may have under capacity osize.
GarbageLens(osize) == {0, strlen(message), osize - 1, osize}

\* mbedtls_pk_decrypt(ctx, input, ilen, output, olen, osize, f_rng, p_rng):
\* ilen must be the modulus size; the matching key recovers the plaintext,
\* which must fit osize; any other key fails the padding check or passes
\* it on garbage that fits osize.
mbedtls_pk_decrypt(key, input, ilen, osize) ==
    IF ilen # rsa_len(key)
    THEN {[ret |-> ERR_RSA_BAD_INPUT_DATA, olen |-> 0, out |-> NoPlain]}
    ELSE IF input.key = key /\ input.pad \in 1..NumPads
    THEN IF strlen(input.msg) > osize
         THEN {[ret |-> ERR_RSA_OUTPUT_TOO_LARGE, olen |-> 0, out |-> NoPlain]}
         ELSE {[ret |-> 0, olen |-> strlen(input.msg),
                out |-> [text |-> input.msg, len |-> strlen(input.msg)]]}
    ELSE {[ret |-> ERR_RSA_INVALID_PADDING, olen |-> 0, out |-> NoPlain]}
         \cup {[ret |-> 0, olen |-> l, out |-> [text |-> "garbage", len |-> l]] :
                 l \in {g \in GarbageLens(osize) : g <= ilen - 11}}

\* ---------------------------------------------------------------- state

VARIABLES
    pc,                 \* the statement of setup()/loop() about to run
    console,            \* the lines written to Serial
    pubFile, privFile,  \* what the SD card holds under the two paths
    public_key_buf, private_key_buf,
    pubKeySize, privKeySize,
    pk_ctx_pub, pk_ctx_priv,
    seeded,             \* ctr_drbg has been seeded
    encrypted, encrypted_length,
    decrypted, decrypted_length,
    ret,
    calls               \* the environment calls made so far, with their outcome

vars == <<pc, console, pubFile, privFile, public_key_buf, private_key_buf,
          pubKeySize, privKeySize, pk_ctx_pub, pk_ctx_priv, seeded,
          encrypted, encrypted_length, decrypted, decrypted_length, ret, calls>>

card == <<pubFile, privFile>>
keybufs == <<public_key_buf, private_key_buf>>
sizes == <<pubKeySize, privKeySize>>
ctxs == <<pk_ctx_pub, pk_ctx_priv>>
cipher == <<encrypted, encrypted_length>>
plain == <<decrypted, decrypted_length>>

Nothing == [none |-> TRUE]

\* One console line: fixed text, a printed number, printed data.
Line(text) == [text |-> text, num |-> 0, data |-> Nothing]
LineNum(text, num) == [text |-> text, num |-> num, data |-> Nothing]
LineData(text, num, data) == [text |-> text, num |-> num, data |-> data]

Call(op, ok) == [op |-> op, ok |-> ok, data |-> Nothing]
CallData(op, ok, data) == [op |-> op, ok |-> ok, data |-> data]

\* displayRsaStatus(ret_val): the library's text for the code, one line.
displayRsaStatus(ret_val) == LineNum("mbedtls_strerror", ret_val)

\* while (1);
halt == "halt"

Init ==
    /\ pc = "serial"
    /\ console = << >>
    /\ pubFile \in KeyFiles \cup {NoFile}
    /\ privFile \in KeyFiles \cup {NoFile}
    /\ public_key_buf = ZeroBuf
    /\ private_key_buf = ZeroBuf
    /\ pubKeySize = 0
    /\ privKeySize = 0
    /\ pk_ctx_pub = NoKey
    /\ pk_ctx_priv = NoKey
    /\ seeded = FALSE
    /\ encrypted = NoCipher
    /\ encrypted_length = 0
    /\ decrypted = NoPlain
    /\ decrypted_length = 0
    /\ ret = 0
    /\ calls = << >>

\* -------------------------------------------------------------- actions

\* Serial.begin; while (!Serial) delay(100); the start banner.
WaitSerial ==
    /\ pc = "serial"
    /\ \E ready \in BOOLEAN :
        IF ready
        THEN /\ pc' = "sd"
             /\ console' = Append(console, Line("Wio Terminal RSA Encryption Demo Starting..."))
        ELSE UNCHANGED <<pc, console>>
    /\ UNCHANGED <<card, keybufs, sizes, ctxs, seeded, cipher, plain, ret, calls>>

\* SD.begin(SDCARD_SS_PIN, SDCARD_SPI)
SdBegin ==
    /\ pc = "sd"
    /\ \E ok \in BOOLEAN :
        /\ calls' = Append(calls, Call("SD.begin", ok))
        /\ IF ~ok
           THEN /\ console' = Append(console, Line("SD card initialization failed!"))
                /\ pc' = halt
           ELSE /\ console' = Append(console, Line("SD card initialized successfully."))
                /\ pc' = "load_pub"
    /\ UNCHANGED <<card, keybufs, sizes, ctxs, seeded, cipher, plain, ret>>

\* SD.open(filename, FILE_READ) succeeds only on a file that is there.
CanOpen(file, ok) == ok => file # NoFile

\* loadKeyFromSD(filename, buffer, buffer_size) on `file`, the open having
\* succeeded or not: the value returned, the buffer and the lines printed.
loadKeyFromSD(filename, file, opened, buffer, buffer_size) ==
    IF ~opened
    THEN [result |-> FALSE, buffer |-> buffer,
          out |-> <<LineData("Failed to open file: ", 0, [name |-> filename])>>]
    ELSE LET bytes_read == readBytes(file, buffer_size)
         IN  [result |-> bytes_read > 0,
              buffer |-> IF bytes_read > 0 THEN Filled(file, bytes_read) ELSE buffer,
              out |-> <<LineData("Loaded bytes from ", bytes_read, [name |-> filename])>>]

LoadPublicKey ==
    /\ pc = "load_pub"
    /\ \E opened \in BOOLEAN :
        /\ CanOpen(pubFile, opened)
        /\ LET r == loadKeyFromSD(PUBLIC_KEY_FILE, pubFile, opened,
                                  public_key_buf, KEY_BUF_SIZE)
           IN  /\ calls' = Append(calls, Call("loadPublic", r.result))
               /\ public_key_buf' = r.buffer
               /\ IF ~r.result
                  THEN /\ console' = console \o r.out \o <<Line("Failed to load public key!")>>
                       /\ pc' = halt
                  ELSE /\ console' = console \o r.out
                       /\ pc' = "load_priv"
    /\ UNCHANGED <<card, private_key_buf, sizes, ctxs, seeded, cipher, plain, ret>>

LoadPrivateKey ==
    /\ pc = "load_priv"
    /\ \E opened \in BOOLEAN :
        /\ CanOpen(privFile, opened)
        /\ LET r == loadKeyFromSD(PRIVATE_KEY_FILE, privFile, opened,
                                  private_key_buf, KEY_BUF_SIZE)
           IN  /\ calls' = Append(calls, Call("loadPrivate", r.result))
               /\ private_key_buf' = r.buffer
               /\ IF ~r.result
                  THEN /\ console' = console \o r.out \o <<Line("Failed to load private key!")>>
                       /\ pc' = halt
                  ELSE /\ console' = console \o r.out \o <<Line("Keys loaded successfully!")>>
                       /\ pc' = "seed"
    /\ UNCHANGED <<card, public_key_buf, sizes, ctxs, seeded, cipher, plain, ret>>

\* mbedtls_*_init; mbedtls_ctr_drbg_seed: the entropy source may fail.
mbedtls_ctr_drbg_seed == {0, ERR_ENTROPY_SOURCE_FAILED}

SeedRng ==
    /\ pc = "seed"
    /\ \E r \in mbedtls_ctr_drbg_seed :
        /\ ret' = r
        /\ calls' = Append(calls, Call("seed", r = 0))
        /\ seeded' = (r = 0)
        /\ IF r # 0
           THEN /\ console' = console \o <<Line("Failed to seed random number generator: "),
                                            displayRsaStatus(r)>>
                /\ pc' = halt
           ELSE /\ console' = console
                /\ pc' = "size_pub"
    /\ UNCHANGED <<card, keybufs, sizes, ctxs, cipher, plain>>

\* File::size() after SD.open: the file's size; after a failed open the
\* File holds no handle and size() reads through it: any value.
size(file, opened) == IF opened THEN {file.size} ELSE FileSizes

\* File pubFile = SD.open(PUBLIC_KEY_FILE, FILE_READ); size(); close()
QueryPubSize ==
    /\ pc = "size_pub"
    /\ \E opened \in BOOLEAN :
        /\ CanOpen(pubFile, opened)
        /\ calls' = Append(calls, Call("openPublicSize", opened))
        /\ pubKeySize' \in size(pubFile, opened)
    /\ pc' = "size_priv"
    /\ UNCHANGED <<console, card, keybufs, privKeySize, ctxs, seeded, cipher, plain, ret>>

\* File privFile = SD.open(PRIVATE_KEY_FILE, FILE_READ); size(); close();
\* then both sizes are printed.
QueryPrivSize ==
    /\ pc = "size_priv"
    /\ \E opened \in BOOLEAN :
        /\ CanOpen(privFile, opened)
        /\ calls' = Append(calls, Call("openPrivateSize", opened))
        /\ privKeySize' \in size(privFile, opened)
    /\ console' = console \o <<LineNum("Public key size: ", pubKeySize),
                               LineNum("Private key size: ", privKeySize')>>
    /\ pc' = "parse_pub"
    /\ UNCHANGED <<card, keybufs, pubKeySize, ctxs, seeded, cipher, plain, ret>>

\* The length handed to mbedtls_pk_parse_public_key.
PubParseLen == pubKeySize

\* The length handed to mbedtls_pk_parse_key.
PrivParseLen == privKeySize

\* Faulty variant of ParsePublicKey: the parser's code is not checked.
ParsePublicKey_NoHalt ==
    /\ pc = "parse_pub"
    /\ \E r \in mbedtls_pk_parse_public_key(public_key_buf, PubParseLen) :
        /\ ret' = r.ret
        /\ pk_ctx_pub' = r.key
        /\ calls' = Append(calls, CallData("parsePublic", r.ret = 0, [len |-> PubParseLen]))
    /\ pc' = "parse_priv"
    /\ UNCHANGED <<console, card, keybufs, sizes, pk_ctx_priv, seeded, cipher, plain>>

ParsePublicKey ==
    /\ pc = "parse_pub"
    /\ \E r \in mbedtls_pk_parse_public_key(public_key_buf, PubParseLen) :
        /\ ret' = r.ret
        /\ pk_ctx_pub' = r.key
        /\ calls' = Append(calls, CallData("parsePublic", r.ret = 0, [len |-> PubParseLen]))
        /\ IF r.ret # 0
           THEN /\ console' = console \o <<Line("Failed to parse public key: "),
                                            displayRsaStatus(r.ret)>>
                /\ pc' = halt
           ELSE /\ console' = console
                /\ pc' = "parse_priv"
    /\ UNCHANGED <<card, keybufs, sizes, pk_ctx_priv, seeded, cipher, plain>>

ParsePrivateKey ==
    /\ pc = "parse_priv"
    /\ \E r \in mbedtls_pk_parse_key(private_key_buf, PrivParseLen) :
        /\ ret' = r.ret
        /\ pk_ctx_priv' = r.key
        /\ calls' = Append(calls, CallData("parsePrivate", r.ret = 0, [len |-> PrivParseLen]))
        /\ IF r.ret # 0
           THEN /\ console' = console \o <<Line("Failed to parse private key: "),
                                            displayRsaStatus(r.ret)>>
                /\ pc' = halt
           ELSE /\ console' = console \o <<Line("Keys parsed successfully!"),
                                            LineData("Original message: ", 0, [text |-> message])>>
                /\ pc' = "encrypt"
    /\ UNCHANGED <<card, keybufs, sizes, pk_ctx_pub, seeded, cipher, plain>>

\* Faulty variant of Encrypt: the code of mbedtls_pk_encrypt is not checked.
Encrypt_Unchecked ==
    /\ pc = "encrypt"
    /\ \E r \in mbedtls_pk_encrypt(pk_ctx_pub, message, MAX_ENCRYPTED_LENGTH) :
        /\ ret' = r.ret
        /\ encrypted_length' = r.olen
        /\ encrypted' = IF r.ret = 0 THEN r.out ELSE encrypted
        /\ calls' = Append(calls, CallData("encrypt", r.ret = 0,
                                           [buf |-> r.out, len |-> r.olen]))
    /\ console' = Append(console, Line("Encrypting..."))
    /\ pc' = "hex"
    /\ UNCHANGED <<card, keybufs, sizes, ctxs, seeded, plain>>

\* mbedtls_pk_encrypt(&pk_ctx_pub, message, strlen(message), encrypted,
\*                    &encrypted_length, MAX_ENCRYPTED_LENGTH, ...)
Encrypt ==
    /\ pc = "encrypt"
    /\ \E r \in mbedtls_pk_encrypt(pk_ctx_pub, message, MAX_ENCRYPTED_LENGTH) :
        /\ ret' = r.ret
        /\ encrypted_length' = r.olen
        /\ encrypted' = IF r.ret = 0 THEN r.out ELSE encrypted
        /\ calls' = Append(calls, CallData("encrypt", r.ret = 0,
                                           [buf |-> r.out, len |-> r.olen]))
        /\ IF r.ret # 0
           THEN /\ console' = console \o <<Line("Encrypting..."), Line("Encryption failed: "),
                                            displayRsaStatus(r.ret)>>
                /\ pc' = halt
           ELSE /\ console' = Append(console, Line("Encrypting..."))
                /\ pc' = "hex"
    /\ UNCHANGED <<card, keybufs, sizes, ctxs, seeded, plain>>

\* Faulty variant of HexBytes: the loop runs while i <= encrypted_length.
HexBytes_OffByOne(n) == Cardinality({i \in 0..n : i <= n})

\* for (size_t i = 0; i < encrypted_length; i++) print encrypted[i] as hex:
\* the number of bytes printed.
HexBytes(n) == Cardinality({i \in 0..(n - 1) : i < n})

PrintHex ==
    /\ pc = "hex"
    /\ console' = Append(console, LineData("Encrypted message (hex): ",
                                           HexBytes(encrypted_length), encrypted))
    /\ pc' = "decrypt"
    /\ UNCHANGED <<card, keybufs, sizes, ctxs, seeded, cipher, plain, ret, calls>>

\* Faulty variant of DecryptArgs: the plaintext capacity is passed as the
\* ciphertext length.
DecryptArgs_LengthMixup == [buf |-> encrypted, len |-> MAX_MESSAGE_LENGTH,
                            osize |-> MAX_MESSAGE_LENGTH]

\* Faulty variant of DecryptArgs: the ciphertext buffer's capacity is passed
\* instead of the length encryption produced.
DecryptArgs_Capacity == [buf |-> encrypted, len |-> MAX_ENCRYPTED_LENGTH,
                         osize |-> MAX_MESSAGE_LENGTH]

\* What setup() hands to mbedtls_pk_decrypt.
DecryptArgs == [buf |-> encrypted, len |-> encrypted_length,
                osize |-> MAX_MESSAGE_LENGTH]

\* Faulty variant of Decrypt: the code of mbedtls_pk_decrypt is not checked.
Decrypt_Unchecked ==
    /\ pc = "decrypt"
    /\ LET a == DecryptArgs
       IN  \E r \in mbedtls_pk_decrypt(pk_ctx_priv, a.buf, a.len, a.osize) :
            /\ ret' = r.ret
            /\ decrypted_length' = r.olen
            /\ decrypted' = IF r.ret = 0 THEN r.out ELSE decrypted
            /\ calls' = Append(calls, CallData("decrypt", r.ret = 0,
                                               [buf |-> a.buf, len |-> a.len]))
    /\ console' = Append(console, Line("Decrypting..."))
    /\ pc' = "terminate"
    /\ UNCHANGED <<card, keybufs, sizes, ctxs, seeded, cipher>>

Decrypt ==
    /\ pc = "decrypt"
    /\ LET a == DecryptArgs
       IN  \E r \in mbedtls_pk_decrypt(pk_ctx_priv, a.buf, a.len, a.osize) :
            /\ ret' = r.ret
            /\ decrypted_length' = r.olen
            /\ decrypted' = IF r.ret = 0 THEN r.out ELSE decrypted
            /\ calls' = Append(calls, CallData("decrypt", r.ret = 0,
                                               [buf |-> a.buf, len |-> a.len]))
            /\ IF r.ret # 0
               THEN /\ console' = console \o <<Line("Decrypting..."), Line("Decryption failed: "),
                                                displayRsaStatus(r.ret)>>
                    /\ pc' = halt
               ELSE /\ console' = Append(console, Line("Decrypting..."))
                    /\ pc' = "terminate"
    /\ UNCHANGED <<card, keybufs, sizes, ctxs, seeded, cipher>>

\* The locals of setup() a write one past decrypted[] may land in,
\* depending on the stack layout ("none": padding, or a byte already 0).
StackNeighbours == {"none", "public_key_buf", "private_key_buf", "encrypted"}

\* A key buffer with one of its bytes overwritten by 0.
Clobbered(buf) == [buf EXCEPT !.der = 0, !.key = NoKey]

\* decrypted[decrypted_length] = '\0': inside the array the write lands
\* after the plaintext; at index MAX_MESSAGE_LENGTH it lands in a neighbour.
NullTerminate ==
    /\ pc = "terminate"
    /\ IF decrypted_length < MAX_MESSAGE_LENGTH
       THEN UNCHANGED <<keybufs, encrypted>>
       ELSE \E victim \in StackNeighbours :
             /\ public_key_buf' = IF victim = "public_key_buf"
                                  THEN Clobbered(public_key_buf) ELSE public_key_buf
             /\ private_key_buf' = IF victim = "private_key_buf"
                                   THEN Clobbered(private_key_buf) ELSE private_key_buf
             /\ encrypted' = IF victim = "encrypted"
                             THEN [encrypted EXCEPT !.pad = 0] ELSE encrypted
    /\ pc' = "print"
    /\ UNCHANGED <<console, card, sizes, ctxs, seeded, encrypted_length, plain, ret, calls>>

\* Serial.println((char *)decrypted); the contexts are freed; the end banner.
PrintDecrypted ==
    /\ pc = "print"
    /\ console' = console \o <<LineData("Decrypted message: ", 0, decrypted),
                               Line("Demo completed!")>>
    /\ pk_ctx_pub' = NoKey
    /\ pk_ctx_priv' = NoKey
    /\ seeded' = FALSE
    /\ pc' = "loop"
    /\ UNCHANGED <<card, keybufs, sizes, cipher, plain, ret, calls>>

\* loop(): delay(1000)
Loop ==
    /\ pc = "loop"
    /\ UNCHANGED vars

\* while (1);
Halted ==
    /\ pc = halt
    /\ UNCHANGED vars

Next ==
    \/ WaitSerial
    \/ SdBegin
    \/ LoadPublicKey
    \/ LoadPrivateKey
    \/ SeedRng
    \/ QueryPubSize
    \/ QueryPrivSize
    \/ ParsePublicKey
    \/ ParsePrivateKey
    \/ Encrypt
    \/ PrintHex
    \/ Decrypt
    \/ NullTerminate
    \/ PrintDecrypted
    \/ Loop
    \/ Halted

Spec == Init /\ [][Next]_vars

\* ------------------------------------------------------------ histories

Called(op) == \E i \in DOMAIN calls : calls[i].op = op
Ok(op) == \E i \in DOMAIN calls : calls[i].op = op /\ calls[i].ok
Failed(op) == \E i \in DOMAIN calls : calls[i].op = op /\ ~calls[i].ok
Count(op) == Cardinality({i \in DOMAIN calls : calls[i].op = op})
TheCall(op) == calls[CHOOSE i \in DOMAIN calls : calls[i].op = op]
Printed(text) == \E i \in DOMAIN console : console[i].text = text
LastLine == console[Len(console)]

ThePlaintext == [text |-> message, len |-> strlen(message)]

\* The card holds the two halves of one key pair of RSA_KEY_SIZE bits.
ValidPair ==
    /\ pubFile # NoFile
    /\ privFile # NoFile
    /\ pubFile.key # NoKey
    /\ pubFile.key = privFile.key
    /\ pubFile.key.bits = RSA_KEY_SIZE

\* --------------------------------------------------------------- claims

\* C1 as stated: whenever a key file is missing, empty or malformed (its
\* load or its parse has failed), the program is halted and no RNG seeding,
\* no encrypt and no decrypt call has been made.
C1_HaltBeforeAnyCrypto ==
    (Failed("loadPublic") \/ Failed("loadPrivate")
        \/ Failed("parsePublic") \/ Failed("parsePrivate"))
    => /\ pc = halt
       /\ ~Called("seed")
       /\ ~Called("encrypt")
       /\ ~Called("decrypt")

\* C1 amended: a key file that is missing or empty when it is loaded halts
\* the program before any library operation (no seeding, no encrypt, no
\* decrypt); a key the parser rejects halts it before any encrypt or
\* decrypt, but after the RNG was seeded successfully.
C1_HaltBeforeEncryptDecrypt ==
    /\ (Failed("loadPublic") \/ Failed("loadPrivate"))
        => /\ pc = halt
           /\ ~Called("seed")
           /\ ~Called("encrypt")
           /\ ~Called("decrypt")
    /\ (Failed("parsePublic") \/ Failed("parsePrivate"))
        => /\ pc = halt
           /\ Ok("seed")
           /\ ~Called("encrypt")
           /\ ~Called("decrypt")

C1_Witness ==
    /\ Failed("parsePrivate")
    /\ pc = halt
    /\ Ok("seed")

\* C2: every failed step (every failed file open included) is the last
\* step made, has left the program halted with a message as the last
\* console line, and "Demo completed!" is not printed.
C2_EveryFailureIsFatal ==
    \A i \in DOMAIN calls :
        ~calls[i].ok
        => /\ i = Len(calls)
           /\ pc = halt
           /\ ~Printed("Demo completed!")

\* C3: with a valid 2048-bit key pair on the card and both keys parsed
\* successfully, setup() never halts, and from the return of decrypt on the
\* decrypted bytes and their length are those of the message, which is what
\* the "Decrypted message" line shows.
C3_RoundTrip ==
    (ValidPair /\ Ok("parsePublic") /\ Ok("parsePrivate"))
    => /\ pc # halt
       /\ pc \in {"terminate", "print", "loop"}
            => /\ decrypted = ThePlaintext
               /\ decrypted_length = strlen(message)
       /\ pc = "loop"
            => \E i \in DOMAIN console :
                /\ console[i].text = "Decrypted message: "
                /\ console[i].data = ThePlaintext

C3_Witness ==
    /\ ValidPair
    /\ Ok("parsePublic")
    /\ Ok("parsePrivate")
    /\ pc = "loop"
    /\ Printed("Demo completed!")

\* The single thread of setup() always takes its next step.
FairSpec == Init /\ [][Next]_vars /\ WF_vars(Next)

\* C3, progress: under FairSpec, with a valid pair parsed, setup() returns
\* and loop() is reached.
C3_ReachesEnd ==
    (ValidPair /\ Ok("parsePublic") /\ Ok("parsePrivate")) ~> (pc = "loop")

\* C4 as stated: a ciphertext that differs from what encryption produced
\* when decryption is called makes decryption fail and the program halt,
\* and no "Decrypted message" line ever shows anything but the message.
C4_NoWrongPlaintext ==
    /\ (Called("encrypt") /\ Called("decrypt")
            /\ TheCall("decrypt").data.buf # TheCall("encrypt").data.buf)
        => (Failed("decrypt") /\ pc = halt)
    /\ \A i \in DOMAIN console :
        console[i].text = "Decrypted message: " => console[i].data = ThePlaintext

\* C4 amended: decryption is always handed exactly the ciphertext that
\* encryption produced; a non-zero decrypt code is reported as the last
\* console line and halts the program with no "Decrypted message" line;
\* and a "Decrypted message" line shows the message whenever the private
\* key on the card is the one matching the public key.  (With another
\* private key of the same modulus size the v1.5 padding check may pass
\* and a wrong plaintext is printed.)
C4_FailureReportedOrKeyMatches ==
    /\ Called("decrypt")
        => /\ Ok("encrypt")
           /\ TheCall("decrypt").data.buf = TheCall("encrypt").data.buf
    /\ Failed("decrypt")
        => /\ pc = halt
           /\ ret # 0
           /\ LastLine = displayRsaStatus(ret)
           /\ ~Printed("Decrypted message: ")
    /\ \A i \in DOMAIN console :
        (console[i].text = "Decrypted message: " /\ pubFile.key = privFile.key)
        => console[i].data = ThePlaintext

C4_Witness ==
    /\ Failed("decrypt")
    /\ pc = halt
    /\ Printed("Decryption failed: ")

\* C5: once encryption with a 2048-bit key has succeeded, encrypted_length
\* is 256, within MAX_ENCRYPTED_LENGTH, and 256 is both the number of bytes
\* hex-printed and the length handed to decryption.
C5_CiphertextLength ==
    (Ok("encrypt") /\ TheCall("encrypt").data.buf.key.bits = RSA_KEY_SIZE)
    => /\ encrypted_length = 256
       /\ encrypted_length <= MAX_ENCRYPTED_LENGTH
       /\ pc # "hex" => Printed("Encrypted message (hex): ")
       /\ \A i \in DOMAIN console :
            console[i].text = "Encrypted message (hex): " => console[i].num = 256
       /\ Called("decrypt") => TheCall("decrypt").data.len = 256

C5_Witness ==
    /\ Ok("encrypt")
    /\ TheCall("encrypt").data.buf.key.bits = RSA_KEY_SIZE
    /\ Called("decrypt")
    /\ Printed("Encrypted message (hex): ")

\* C6: encrypt and decrypt are each called at most once; a failed encrypt
\* halts with no ciphertext hex printed and no decrypt call; a failed
\* decrypt halts with no "Decrypted message" line.
C6_SingleShot ==
    /\ Count("encrypt") <= 1
    /\ Count("decrypt") <= 1
    /\ Failed("encrypt")
        => /\ pc = halt
           /\ ~Printed("Encrypted message (hex): ")
           /\ ~Called("decrypt")
    /\ Failed("decrypt")
        => /\ pc = halt
           /\ ~Printed("Decrypted message: ")

C6_Witness ==
    /\ Failed("encrypt")
    /\ pc = halt
    /\ Printed("Encryption failed: ")

\* The steps of setup() in the order C7 gives them.
StepOrder ==
    <<"SD.begin", "loadPublic", "loadPrivate", "seed",
      "parsePublic", "parsePrivate", "encrypt", "decrypt">>

IsStep(c) == \E i \in DOMAIN StepOrder : StepOrder[i] = c.op

Steps == SelectSeq(calls, IsStep)

\* C7: the steps made so far are a prefix of the fixed order, each made
\* only after the one before it succeeded; the decrypted message is printed
\* only after all of them succeeded; and decrypt is called only after a
\* successful encrypt, with the buffer and length encrypt produced.
C7_FixedOrder ==
    /\ Len(Steps) <= Len(StepOrder)
    /\ \A i \in DOMAIN Steps :
        /\ Steps[i].op = StepOrder[i]
        /\ i > 1 => Steps[i - 1].ok
    /\ Printed("Decrypted message: ")
        => /\ Len(Steps) = Len(StepOrder)
           /\ \A i \in DOMAIN Steps : Steps[i].ok
    /\ Called("decrypt")
        => /\ Ok("encrypt")
           /\ TheCall("decrypt").data = TheCall("encrypt").data

C7_Witness ==
    /\ Called("decrypt")
    /\ Len(Steps) = Len(StepOrder)

\* C8: outside its own load, no step changes a key buffer.
C8_KeyBuffersWrittenOnce ==
    [][/\ pc # "load_pub" => public_key_buf' = public_key_buf
       /\ pc # "load_priv" => private_key_buf' = private_key_buf]_vars

\* C9: the length handed to each parser is the number of bytes loaded into
\* the buffer, and is at most the buffer's capacity.
C9_ParseLengthIsBytesRead ==
    /\ Called("parsePublic")
        => /\ TheCall("parsePublic").data.len = public_key_buf.n
           /\ TheCall("parsePublic").data.len <= KEY_BUF_SIZE
    /\ Called("parsePrivate")
        => /\ TheCall("parsePrivate").data.len = private_key_buf.n
           /\ TheCall("parsePrivate").data.len <= KEY_BUF_SIZE

\* C10: after a successful decrypt the index of the terminating write,
\* decrypted_length, is inside decrypted[].
C10_TerminatorInsideBuffer ==
    Ok("decrypt") => decrypted_length < MAX_MESSAGE_LENGTH

====
